---- MODULE Spec2Model ----
(***************************************************************************)
(* Model of src/runners/inference.py: the dispatch of the inference        *)
(* function per model type and split (get_test_func, get_sample_arg), the  *)
(* three batch loops (get_preds, get_bulk_preds, get_gnn_preds) and the    *)
(* orchestration of one evaluation (test).                                 *)
(*                                                                         *)
(* Tensors are sequences.  The scoring model is an external collaborator:  *)
(* it returns one logit per link of the batch it is given (Logit).         *)
(* Datasets hold at least one link: torch.cat of an empty list is          *)
(* behaviour of the framework, not of this file.                           *)
(***************************************************************************)
EXTENDS Integers, Sequences, FiniteSets, TLC

VARIABLES args, loaders, eval_metric, tpc, frame, out, trace, metricCalls,
          result, dres

vars == <<args, loaders, eval_metric, tpc, frame, out, trace, metricCalls,
          result, dres>>

(***************************************************************************)
(* Bounds of the model.                                                    *)
(***************************************************************************)
MaxN == 3          \* links of a dataset in the runs of test
MaxLinks == 4      \* links of a dataset in the direct calls of the loops
MaxB == 2          \* batch sizes
MaxS == 5          \* integer sample sizes

(***************************************************************************)
(* Python numbers: None, math.inf, and the rationals num/den (ints have    *)
(* den = 1; the fractions used are dyadic, so float arithmetic is exact).  *)
(***************************************************************************)
PyNone == [kind |-> "none", num |-> 0, den |-> 1]
inf == [kind |-> "inf", num |-> 0, den |-> 1]
Num(n, d) == [kind |-> "num", num |-> n, den |-> d]
PyInt(n) == Num(n, 1)

\* a <= 1 (inf <= 1 is False)
LeOne(a) == a.kind = "num" /\ a.num <= a.den
\* n * a for an int n and a finite a
MulInt(n, a) == Num(n * a.num, a.den)
\* m > a for an int m (nothing is greater than inf)
IntGT(m, a) == a.kind = "num" /\ m * a.den > a.num
\* m >= a for an int m
IntGE(m, a) == a.kind = "num" /\ m * a.den >= a.num
\* bool(a)
Truthy(a) == a.kind = "inf" \/ (a.kind = "num" /\ a.num # 0)

Min(a, b) == IF a <= b THEN a ELSE b

(***************************************************************************)
(* The values of a call that either returns or raises.                     *)
(***************************************************************************)
Return(v) == [raised |-> FALSE, value |-> v]
Raise(e) == [raised |-> TRUE, value |-> e]

(***************************************************************************)
(* get_test_func(args, split)                                              *)
(***************************************************************************)
get_test_func_swapped(a, split) ==
    IF a.model = "ELPH" THEN Return("get_gnn_preds")
    ELSE IF split = "train"
         THEN Return(IF a.bulk_train THEN "get_bulk_preds" ELSE "get_preds")
    ELSE IF split \in {"val", "valid"}
         THEN Return(IF a.bulk_test THEN "get_bulk_preds" ELSE "get_preds")
    ELSE IF split = "test"
         THEN Return(IF a.bulk_test THEN "get_bulk_preds" ELSE "get_preds")
    ELSE Raise("NotImplementedError")

get_test_func_lenient(a, split) ==
    IF a.model = "ELPH" THEN Return("get_gnn_preds")
    ELSE IF split = "train"
         THEN Return(IF a.bulk_train THEN "get_bulk_preds" ELSE "get_preds")
    ELSE IF split \in {"val", "valid"}
         THEN Return(IF a.bulk_val THEN "get_bulk_preds" ELSE "get_preds")
    ELSE Return(IF a.bulk_test THEN "get_bulk_preds" ELSE "get_preds")

get_test_func(a, split) ==
    IF a.model = "ELPH" THEN Return("get_gnn_preds")
    ELSE IF split = "train"
         THEN Return(IF a.bulk_train THEN "get_bulk_preds" ELSE "get_preds")
    ELSE IF split \in {"val", "valid"}
         THEN Return(IF a.bulk_val THEN "get_bulk_preds" ELSE "get_preds")
    ELSE IF split = "test"
         THEN Return(IF a.bulk_test THEN "get_bulk_preds" ELSE "get_preds")
    ELSE Raise("NotImplementedError")

(***************************************************************************)
(* get_sample_arg(split, args)                                             *)
(***************************************************************************)
get_sample_arg(split, a) ==
    IF split = "train"
         THEN Return(IF a.dynamic_train THEN a.train_samples ELSE inf)
    ELSE IF split \in {"val", "valid"}
         THEN Return(IF a.dynamic_val THEN a.val_samples ELSE inf)
    ELSE IF split = "test"
         THEN Return(IF a.dynamic_test THEN a.test_samples ELSE inf)
    ELSE Raise("NotImplementedError")

(***************************************************************************)
(* Tensors                                                                 *)
(***************************************************************************)
\* torch.cat of a list of 1-d tensors
RECURSIVE Cat(_)
Cat(ts) == IF ts = <<>> THEN <<>> ELSE Head(ts) \o Cat(Tail(ts))

\* pred[true == v]: the entries of pred at the positions where true is v
RECURSIVE MaskFrom(_, _, _, _)
MaskFrom(pred, true, v, i) ==
    IF i > Len(pred) THEN <<>>
    ELSE (IF true[i] = v THEN <<pred[i]>> ELSE <<>>)
         \o MaskFrom(pred, true, v, i + 1)

Mask(pred, true, v) == MaskFrom(pred, true, v, 1)

\* The logit the (external) model gives link i; one logit per link.
Logit(i) == 10 * i + 3

\* The indices of iteration k (from 0) of a DataLoader over n items in
\* batches of bs, shuffle=False.
Batch(k, bs, n) == [j \in 1..(Min(n, (k + 1) * bs) - k * bs) |-> k * bs + j]

\* Whether iteration k (from 0) was the last one of the loader.
Exhausted(k, bs, n) == (k + 1) * bs >= n

Logits(idx) == [j \in 1..Len(idx) |-> Logit(idx[j])]
LabelsAt(labels, idx) == [j \in 1..Len(idx) |-> labels[idx[j]]]

(***************************************************************************)
(* The activation record of one call of an inference function.             *)
(***************************************************************************)
NoRet == [pos_pred |-> <<>>, neg_pred |-> <<>>, pred |-> <<>>, true |-> <<>>]

NoFrame ==
    [func |-> "none", split |-> "", emb |-> PyNone, sample_size |-> inf,
     labels |-> <<>>, bs |-> 0, samples |-> inf, batches |-> 0,
     y_pred |-> <<>>, y_true |-> <<>>, node_id |-> <<>>,
     pc |-> "none", ret |-> NoRet, error |-> ""]

(***************************************************************************)
(* get_preds                                                               *)
(***************************************************************************)
\* lines 69-72: the limit from the sample argument
PredsSamplesStrict(sample_arg, n) ==
    IF sample_arg.kind = "num" /\ sample_arg.num < sample_arg.den
    THEN MulInt(n, sample_arg) ELSE sample_arg

PredsSamples(sample_arg, n) ==
    IF LeOne(sample_arg) THEN MulInt(n, sample_arg) ELSE sample_arg

\* lines 66-78: the call up to the loop
EnterPreds(a, loader, emb, sample_size, split) ==
    LET sample_arg == get_sample_arg(split, a)
        base == [NoFrame EXCEPT !.func = "get_preds", !.split = split,
                                !.emb = emb, !.sample_size = sample_size,
                                !.labels = loader.labels,
                                !.bs = loader.batch_size]
    IN IF sample_arg.raised
       THEN [base EXCEPT !.pc = "raised", !.error = sample_arg.value]
       ELSE [base EXCEPT !.pc = "loop",
                         !.samples = PredsSamples(sample_arg.value,
                                                  Len(loader.labels))]

\* line 95
PredsBreak(batch_count, a, samples) ==
    IntGT((batch_count + 1) * a.batch_size, samples)

\* lines 79-100: one iteration of the loop over the loader
PredsBatch ==
    /\ frame.func = "get_preds"
    /\ frame.pc = "loop"
    /\ LET batch_count == frame.batches
           data == Batch(batch_count, frame.bs, Len(frame.labels))
       IN frame' = [frame EXCEPT
             !.y_true = Append(@, LabelsAt(frame.labels, data)),
             !.y_pred = Append(@, Logits(data)),
             !.node_id = Append(@, IF args.model = "hashing" THEN "unused"
                                   ELSE IF Truthy(frame.emb) THEN "data.node_id"
                                   ELSE "None"),
             !.batches = batch_count + 1,
             !.pc = IF PredsBreak(batch_count, args, frame.samples)
                       \/ Exhausted(batch_count, frame.bs, Len(frame.labels))
                    THEN "post" ELSE "loop"]
    /\ UNCHANGED <<args, loaders, eval_metric, tpc, out, trace, metricCalls,
                   result, dres>>

\* lines 101-110: np is not imported, so np.mean raises NameError when
\* args.wandb is set
PredsFinish ==
    /\ frame.func = "get_preds"
    /\ frame.pc = "post"
    /\ IF args.wandb
       THEN frame' = [frame EXCEPT !.pc = "raised", !.error = "NameError"]
       ELSE LET pred == Cat(frame.y_pred)
                true == Cat(frame.y_true)
            IN frame' = [frame EXCEPT
                  !.pc = "returned",
                  !.ret = [pos_pred |-> Mask(pred, true, 1),
                           neg_pred |-> Mask(pred, true, 0),
                           pred |-> pred, true |-> true]]
    /\ UNCHANGED <<args, loaders, eval_metric, tpc, out, trace, metricCalls,
                   result, dres>>

(***************************************************************************)
(* get_bulk_preds and get_gnn_preds                                        *)
(***************************************************************************)
\* lines 114-129 and 178-195: the call up to the loop; the loop's loader is
\* DataLoader(range(len(links)), args.eval_batch_size, shuffle=False)
EnterBulk(func, a, loader, sample_size, split) ==
    [NoFrame EXCEPT !.func = func, !.split = split,
                    !.sample_size = sample_size,
                    !.labels = loader.labels,
                    !.bs = a.eval_batch_size,
                    !.pc = "loop"]

\* line 145
BulkBreakAtLimit(batch_count, a, sample_size) ==
    IntGE((batch_count + 1) * a.eval_batch_size, sample_size)

BulkBreak(batch_count, a, sample_size) ==
    IntGT((batch_count + 1) * a.eval_batch_size, sample_size)

\* lines 150-154 and 209-213
BulkOutputsUntruncated(preds, all_labels) ==
    LET pred == Cat(preds)
    IN [pos_pred |-> Mask(pred, all_labels, 1),
        neg_pred |-> Mask(pred, all_labels, 0),
        pred |-> pred, true |-> all_labels]

BulkOutputs(preds, all_labels) ==
    LET pred == Cat(preds)
        labels == SubSeq(all_labels, 1, Len(pred))
    IN [pos_pred |-> Mask(pred, labels, 1),
        neg_pred |-> Mask(pred, labels, 0),
        pred |-> pred, true |-> labels]

\* lines 130-146: one iteration of the loop of get_bulk_preds
BulkBatch ==
    /\ frame.func = "get_bulk_preds"
    /\ frame.pc = "loop"
    /\ LET batch_count == frame.batches
           indices == Batch(batch_count, frame.bs, Len(frame.labels))
       IN frame' = [frame EXCEPT
             !.y_pred = Append(@, Logits(indices)),
             !.batches = batch_count + 1,
             !.pc = IF BulkBreak(batch_count, args, frame.sample_size)
                       \/ Exhausted(batch_count, frame.bs, Len(frame.labels))
                    THEN "post" ELSE "loop"]
    /\ UNCHANGED <<args, loaders, eval_metric, tpc, out, trace, metricCalls,
                   result, dres>>

\* lines 148-154
BulkFinish ==
    /\ frame.func = "get_bulk_preds"
    /\ frame.pc = "post"
    /\ frame' = [frame EXCEPT !.pc = "returned",
                              !.ret = BulkOutputs(frame.y_pred, frame.labels)]
    /\ UNCHANGED <<args, loaders, eval_metric, tpc, out, trace, metricCalls,
                   result, dres>>

\* lines 196-205: one iteration of the loop of get_gnn_preds (no break)
GnnBatch ==
    /\ frame.func = "get_gnn_preds"
    /\ frame.pc = "loop"
    /\ LET batch_count == frame.batches
           indices == Batch(batch_count, frame.bs, Len(frame.labels))
       IN frame' = [frame EXCEPT
             !.y_pred = Append(@, Logits(indices)),
             !.batches = batch_count + 1,
             !.pc = IF Exhausted(batch_count, frame.bs, Len(frame.labels))
                    THEN "post" ELSE "loop"]
    /\ UNCHANGED <<args, loaders, eval_metric, tpc, out, trace, metricCalls,
                   result, dres>>

\* lines 207-213
GnnFinish ==
    /\ frame.func = "get_gnn_preds"
    /\ frame.pc = "post"
    /\ frame' = [frame EXCEPT !.pc = "returned",
                              !.ret = BulkOutputs(frame.y_pred, frame.labels)]
    /\ UNCHANGED <<args, loaders, eval_metric, tpc, out, trace, metricCalls,
                   result, dres>>

(***************************************************************************)
(* test                                                                    *)
(***************************************************************************)
\* A fifth positional argument that is not passed.
Absent == [kind |-> "absent", num |-> 0, den |-> 1]

\* func(model, loader, device, args, fifth, split=split): the fifth
\* positional parameter is emb for get_preds (line 66) and sample_size for
\* get_bulk_preds and get_gnn_preds (lines 114, 178).
Call(func, a, loader, fifth, split) ==
    IF func = "get_preds"
    THEN EnterPreds(a, loader, IF fifth = Absent THEN PyNone ELSE fifth,
                    inf, split)
    ELSE EnterBulk(func, a, loader, IF fifth = Absent THEN inf ELSE fifth,
                   split)

NoMetric == [fn |-> "none", inputs |-> <<>>, Ks |-> <<>>]
NoResult == [raised |-> FALSE, error |-> "", value |-> NoMetric]
NoOut == [train |-> NoRet, val |-> NoRet, test |-> NoRet]

\* lines 50-58: the call of the metric function, NoMetric when no branch
\* is taken
Evaluate(em, a, o) ==
    IF em = "hits"
    THEN [fn |-> "evaluate_hits",
          inputs |-> <<o.train.pos_pred, o.train.neg_pred, o.val.pos_pred,
                       o.val.neg_pred, o.test.pos_pred, o.test.neg_pred>>,
          Ks |-> <<a.K>>]
    ELSE IF em = "mrr"
    THEN [fn |-> "evaluate_mrr",
          inputs |-> <<o.train.pos_pred, o.train.neg_pred, o.val.pos_pred,
                       o.val.neg_pred, o.test.pos_pred, o.test.neg_pred>>,
          Ks |-> <<>>]
    ELSE IF em = "auc"
    THEN [fn |-> "evaluate_auc",
          inputs |-> <<o.val.pred, o.val.true, o.test.pred, o.test.true>>,
          Ks |-> <<>>]
    ELSE NoMetric

EvalMetrics == {"hits", "mrr", "auc", "acc"}

\* lines 35-39
TrainEvalSamples(a, ls) ==
    IF a.dataset_name # "ogbl-citation2"
    THEN PyInt(Len(ls.val.labels)) ELSE inf

\* lines 30-41: test is called; the train predictions are asked for
TestStart ==
    /\ tpc = "idle"
    /\ \E em \in EvalMetrics : eval_metric' = em
    /\ LET train_pred_func == get_test_func(args, "train").value
       IN /\ frame' = Call(train_pred_func, args, loaders.train,
                           TrainEvalSamples(args, loaders), "train")
          /\ trace' = Append(trace, <<"train", train_pred_func>>)
    /\ tpc' = "train"
    /\ UNCHANGED <<args, loaders, out, metricCalls, result, dres>>

\* lines 40-44: the train predictions are back; the val ones are asked for
TestAfterTrain ==
    /\ tpc = "train"
    /\ frame.pc = "returned"
    /\ out' = [out EXCEPT !.train = frame.ret]
    /\ LET val_pred_func == get_test_func(args, "val").value
       IN /\ frame' = Call(val_pred_func, args, loaders.val, Absent, "val")
          /\ trace' = Append(trace, <<"val", val_pred_func>>)
    /\ tpc' = "val"
    /\ UNCHANGED <<args, loaders, eval_metric, metricCalls, result, dres>>

\* lines 44-48: the val predictions are back; the test ones are asked for
TestAfterVal ==
    /\ tpc = "val"
    /\ frame.pc = "returned"
    /\ out' = [out EXCEPT !.val = frame.ret]
    /\ LET test_pred_func == get_test_func(args, "test").value
       IN /\ frame' = Call(test_pred_func, args, loaders.test,
                           args.test_samples, "test")
          /\ trace' = Append(trace, <<"test", test_pred_func>>)
    /\ tpc' = "test"
    /\ UNCHANGED <<args, loaders, eval_metric, metricCalls, result, dres>>

\* lines 47-62: the test predictions are back; the metric is computed and
\* returned.  With no branch taken, results is unbound at line 62.
TestAfterTest ==
    /\ tpc = "test"
    /\ frame.pc = "returned"
    /\ out' = [out EXCEPT !.test = frame.ret]
    /\ frame' = NoFrame
    /\ LET results == Evaluate(eval_metric, args, out')
       IN IF results = NoMetric
          THEN /\ tpc' = "raised"
               /\ result' = [NoResult EXCEPT !.raised = TRUE,
                                             !.error = "UnboundLocalError"]
               /\ UNCHANGED metricCalls
          ELSE /\ tpc' = "returned"
               /\ metricCalls' = Append(metricCalls, results)
               /\ result' = [NoResult EXCEPT !.value = results]
    /\ UNCHANGED <<args, loaders, eval_metric, trace, dres>>

\* An exception of an inference function leaves test.
TestRaise ==
    /\ tpc \in {"train", "val", "test"}
    /\ frame.pc = "raised"
    /\ tpc' = "raised"
    /\ result' = [NoResult EXCEPT !.raised = TRUE, !.error = frame.error]
    /\ frame' = NoFrame
    /\ UNCHANGED <<args, loaders, eval_metric, out, trace, metricCalls, dres>>

(***************************************************************************)
(* Direct calls of the functions                                           *)
(***************************************************************************)
Splits == {"train", "val", "valid", "test", "dev", "None"}
ValidSplits == {"train", "val", "valid", "test"}

NoDres == [fn |-> "none", split |-> "", raised |-> FALSE, func |-> "",
           sample |-> PyNone, error |-> ""]

Loader(labels, bs) == [labels |-> labels, batch_size |-> bs]

\* labels 1, 0, 1, ... of a dataset of n links
AltLabels(n) == [i \in 1..n |-> i % 2]

\* every labelling of 1..n links; 2 is a label that is neither 0 nor 1
LabelSeqs(n) == UNION {[1..k -> {0, 1, 2}] : k \in 1..n}

SampleSizes == {inf} \cup {PyInt(n) : n \in 0..MaxS} \cup {Num(1, 2), Num(5, 2)}

CallGetTestFunc ==
    /\ \E split \in Splits :
         LET r == get_test_func(args, split)
         IN dres' = [NoDres EXCEPT !.fn = "get_test_func", !.split = split,
                                   !.raised = r.raised,
                                   !.func = IF r.raised THEN "" ELSE r.value,
                                   !.error = IF r.raised THEN r.value ELSE ""]
    /\ UNCHANGED <<args, loaders, eval_metric, tpc, frame, out, trace,
                   metricCalls, result>>

CallGetSampleArg ==
    /\ \E split \in Splits :
         LET r == get_sample_arg(split, args)
         IN dres' = [NoDres EXCEPT !.fn = "get_sample_arg", !.split = split,
                                   !.raised = r.raised,
                                   !.sample = IF r.raised THEN PyNone ELSE r.value,
                                   !.error = IF r.raised THEN r.value ELSE ""]
    /\ UNCHANGED <<args, loaders, eval_metric, tpc, frame, out, trace,
                   metricCalls, result>>

\* get_bulk_preds(model, loader, device, args, sample_size)
CallBulkPreds ==
    /\ frame.func = "none"
    /\ \E labels \in LabelSeqs(MaxLinks), sample_size \in SampleSizes :
         frame' = EnterBulk("get_bulk_preds", args,
                            Loader(labels, args.batch_size), sample_size, "None")
    /\ UNCHANGED <<args, loaders, eval_metric, tpc, out, trace, metricCalls,
                   result, dres>>

\* get_gnn_preds(model, loader, device, args, sample_size)
CallGnnPreds ==
    /\ frame.func = "none"
    /\ \E labels \in LabelSeqs(MaxLinks), sample_size \in SampleSizes :
         frame' = EnterBulk("get_gnn_preds", args,
                            Loader(labels, args.batch_size), sample_size, "None")
    /\ UNCHANGED <<args, loaders, eval_metric, tpc, out, trace, metricCalls,
                   result, dres>>

\* get_preds(model, loader, device, args, sample_size=sample_size, split=split)
CallGetPreds ==
    /\ frame.func = "none"
    /\ \E n \in 1..MaxLinks, bs \in 1..MaxB, sample_size \in {inf, PyInt(1)},
          split \in Splits :
         frame' = EnterPreds(args, Loader(AltLabels(n), bs), PyNone,
                             sample_size, split)
    /\ UNCHANGED <<args, loaders, eval_metric, tpc, out, trace, metricCalls,
                   result, dres>>

(***************************************************************************)
(* Initial states and specifications                                       *)
(***************************************************************************)
DefaultArgs ==
    [model |-> "SEAL", bulk_train |-> FALSE, bulk_val |-> FALSE,
     bulk_test |-> FALSE, dynamic_train |-> FALSE, dynamic_val |-> FALSE,
     dynamic_test |-> FALSE, train_samples |-> inf, val_samples |-> inf,
     test_samples |-> inf, dataset_name |-> "Cora", batch_size |-> 1,
     eval_batch_size |-> 1, wandb |-> FALSE, K |-> 100]

DefaultLoaders ==
    [train |-> Loader(AltLabels(1), 1), val |-> Loader(AltLabels(1), 1),
     test |-> Loader(AltLabels(1), 1)]

Quiet ==
    /\ eval_metric = "none"
    /\ tpc = "idle"
    /\ frame = NoFrame
    /\ out = NoOut
    /\ trace = <<>>
    /\ metricCalls = <<>>
    /\ result = NoResult
    /\ dres = NoDres

Models == {"ELPH", "hashing", "SEAL"}
SampleVals == {PyInt(0), Num(1, 2), PyInt(1), PyInt(2)}

\* get_test_func and get_sample_arg on every setting of the flags
InitDispatch ==
    /\ args \in {[DefaultArgs EXCEPT !.model = m,
                    !.bulk_train = b[1], !.bulk_val = b[2], !.bulk_test = b[3],
                    !.dynamic_train = d[1], !.dynamic_val = d[2],
                    !.dynamic_test = d[3],
                    !.train_samples = s[1], !.val_samples = s[2],
                    !.test_samples = s[3]] :
                 m \in Models, b \in [1..3 -> BOOLEAN], d \in [1..3 -> BOOLEAN],
                 s \in [1..3 -> {inf, Num(1, 2), PyInt(2)}]}
    /\ loaders = DefaultLoaders
    /\ Quiet

NextDispatch == CallGetTestFunc \/ CallGetSampleArg

SpecDispatch == InitDispatch /\ [][NextDispatch]_vars

\* get_bulk_preds and get_gnn_preds on every dataset and sample size
InitBulk ==
    /\ args \in {[DefaultArgs EXCEPT !.model = m, !.eval_batch_size = B,
                                     !.wandb = w] :
                 m \in {"ELPH", "SEAL"}, B \in 1..MaxB, w \in BOOLEAN}
    /\ loaders = DefaultLoaders
    /\ Quiet

NextBulk ==
    \/ CallBulkPreds \/ BulkBatch \/ BulkFinish
    \/ CallGnnPreds \/ GnnBatch \/ GnnFinish

SpecBulk == InitBulk /\ [][NextBulk]_vars

\* get_preds on every setting of the dynamic flags and samples
InitPreds ==
    /\ args \in {[DefaultArgs EXCEPT !.model = m, !.batch_size = B,
                    !.wandb = w,
                    !.dynamic_train = d[1], !.dynamic_val = d[2],
                    !.dynamic_test = d[3],
                    !.train_samples = s[1], !.val_samples = s[2],
                    !.test_samples = s[3]] :
                 m \in {"hashing", "SEAL"}, B \in 1..MaxB, w \in BOOLEAN,
                 d \in [1..3 -> BOOLEAN],
                 s \in [1..3 -> SampleVals]}
    /\ loaders = DefaultLoaders
    /\ Quiet

NextPreds == CallGetPreds \/ PredsBatch \/ PredsFinish

SpecPreds == InitPreds /\ [][NextPreds]_vars

\* one call of test: every model type, bulk and dynamic flag, both kinds of
\* dataset name, train sets of 1..MaxN and val sets of 1..2 links; the
\* loaders batch by args.batch_size
InitTest ==
    /\ args \in {[DefaultArgs EXCEPT !.model = m, !.dataset_name = dn,
                    !.batch_size = B[1], !.eval_batch_size = B[2],
                    !.wandb = w,
                    !.bulk_train = b[1], !.bulk_val = b[2], !.bulk_test = b[3],
                    !.dynamic_train = d[1], !.dynamic_val = d[2],
                    !.dynamic_test = d[3],
                    !.train_samples = Num(1, 2), !.val_samples = PyInt(1),
                    !.test_samples = ts] :
                 m \in Models, dn \in {"Cora", "ogbl-citation2"},
                 B \in [1..2 -> 1..MaxB], w \in BOOLEAN,
                 b \in [1..3 -> BOOLEAN], d \in [1..3 -> BOOLEAN],
                 ts \in {inf, PyInt(1)}}
    /\ loaders \in {[train |-> Loader(AltLabels(nt), args.batch_size),
                     val |-> Loader(AltLabels(nv), args.batch_size),
                     test |-> Loader(AltLabels(2), args.batch_size)] :
                    nt \in 1..MaxN, nv \in 1..2}
    /\ Quiet

NextTest ==
    \/ TestStart \/ TestAfterTrain \/ TestAfterVal \/ TestAfterTest
    \/ TestRaise
    \/ PredsBatch \/ PredsFinish
    \/ BulkBatch \/ BulkFinish
    \/ GnnBatch \/ GnnFinish

SpecTest == InitTest /\ [][NextTest]_vars

(***************************************************************************)
(* Properties                                                              *)
(***************************************************************************)
Bulk(flag) == IF flag THEN "get_bulk_preds" ELSE "get_preds"

\* C1: get_test_func returns get_gnn_preds when args.model is 'ELPH', and
\* otherwise get_bulk_preds iff the bulk flag of the split it is asked for
\* is set (bulk_train for 'train', bulk_val for 'val' and 'valid', bulk_test
\* for 'test') and get_preds iff it is not; no other flag has a say.
C1_Dispatch ==
    dres.fn = "get_test_func" =>
        /\ args.model = "ELPH" => ~dres.raised /\ dres.func = "get_gnn_preds"
        /\ args.model # "ELPH" /\ dres.split = "train" =>
               ~dres.raised /\ dres.func = Bulk(args.bulk_train)
        /\ args.model # "ELPH" /\ dres.split \in {"val", "valid"} =>
               ~dres.raised /\ dres.func = Bulk(args.bulk_val)
        /\ args.model # "ELPH" /\ dres.split = "test" =>
               ~dres.raised /\ dres.func = Bulk(args.bulk_test)

C1_Witness ==
    /\ dres.fn = "get_test_func"
    /\ dres.split = "valid"
    /\ args.model = "hashing"
    /\ args.bulk_val /\ ~args.bulk_train /\ ~args.bulk_test
    /\ dres.func = "get_bulk_preds"

\* C2 as stated: for every split outside {'train', 'val', 'valid', 'test'}
\* and every model type, get_test_func and get_sample_arg raise
\* NotImplementedError; for every split inside they return.
C2_Original ==
    dres.fn \in {"get_test_func", "get_sample_arg"} =>
        /\ dres.split \notin ValidSplits =>
               dres.raised /\ dres.error = "NotImplementedError"
        /\ dres.split \in ValidSplits => ~dres.raised

\* C2 amended: for every split outside {'train', 'val', 'valid', 'test'},
\* get_sample_arg raises NotImplementedError, and get_test_func raises it
\* unless args.model is 'ELPH', in which case it returns get_gnn_preds
\* without looking at the split; for every split inside both return.
C2_Amended ==
    /\ dres.fn = "get_sample_arg" =>
           /\ dres.split \notin ValidSplits =>
                  dres.raised /\ dres.error = "NotImplementedError"
           /\ dres.split \in ValidSplits => ~dres.raised
    /\ dres.fn = "get_test_func" =>
           /\ dres.split \notin ValidSplits /\ args.model # "ELPH" =>
                  dres.raised /\ dres.error = "NotImplementedError"
           /\ dres.split \notin ValidSplits /\ args.model = "ELPH" =>
                  ~dres.raised /\ dres.func = "get_gnn_preds"
           /\ dres.split \in ValidSplits => ~dres.raised

C2_Witness ==
    /\ dres.fn = "get_test_func"
    /\ dres.split = "dev"
    /\ args.model = "ELPH"
    /\ ~dres.raised
    /\ dres.func = "get_gnn_preds"

\* C3 as stated: a call of test runs inference once per split in the order
\* train, val, test, each with the function get_test_func chose, then calls
\* exactly one metric function chosen by eval_metric on the stated inputs,
\* and returns its result, whatever eval_metric is.
C3_Original ==
    /\ tpc # "raised"
    /\ metricCalls # <<>> => tpc = "returned"
    /\ tpc = "returned" =>
         /\ trace = << <<"train", get_test_func(args, "train").value>>,
                       <<"val", get_test_func(args, "val").value>>,
                       <<"test", get_test_func(args, "test").value>> >>
         /\ Len(metricCalls) = 1
         /\ eval_metric = "hits" =>
              metricCalls[1] =
                [fn |-> "evaluate_hits",
                 inputs |-> <<out.train.pos_pred, out.train.neg_pred,
                              out.val.pos_pred, out.val.neg_pred,
                              out.test.pos_pred, out.test.neg_pred>>,
                 Ks |-> <<args.K>>]
         /\ eval_metric = "mrr" =>
              /\ metricCalls[1].fn = "evaluate_mrr"
              /\ metricCalls[1].inputs =
                   <<out.train.pos_pred, out.train.neg_pred,
                     out.val.pos_pred, out.val.neg_pred,
                     out.test.pos_pred, out.test.neg_pred>>
         /\ eval_metric = "auc" =>
              /\ metricCalls[1].fn = "evaluate_auc"
              /\ metricCalls[1].inputs =
                   <<out.val.pred, out.val.true, out.test.pred, out.test.true>>
         /\ ~result.raised
         /\ result.value = metricCalls[1]

\* The batch size of the loop of an inference function.
BatchSizeOf(func) ==
    IF func = "get_preds" THEN args.batch_size ELSE args.eval_batch_size

\* C4 as stated: in test, unless the dataset is 'ogbl-citation2', the train
\* predictions number less than len(val_loader.dataset) plus one batch size
\* whenever the train set is larger than the validation set, whichever
\* inference function runs; for 'ogbl-citation2' every train edge is scored.
C4_Original ==
    tpc = "train" /\ frame.pc = "returned" =>
        /\ ( /\ args.dataset_name # "ogbl-citation2"
             /\ Len(loaders.train.labels) > Len(loaders.val.labels) )
           => Len(frame.ret.pred)
                < Len(loaders.val.labels) + BatchSizeOf(frame.func)
        /\ args.dataset_name = "ogbl-citation2" =>
             Len(frame.ret.pred) = Len(loaders.train.labels)

\* ceil(n / b)
CeilDiv(n, b) == (n + b - 1) \div b

\* B * (floor(S / B) + 1) for a finite S = num/den >= 0
FirstOver(S, B) == B * ((S.num \div (S.den * B)) + 1)

\* C5: get_bulk_preds scores the links in batches of B = args.eval_batch_size
\* and stops after the first batch k with k*B > sample_size or when the
\* links are exhausted: it returns min(N, B*(floor(S/B)+1)) predictions for
\* a finite sample_size S >= 0 and all N for an infinite one, never runs
\* more than ceil(N/B) batches, and runs at least one.
C5_BulkCount ==
    frame.func = "get_bulk_preds" =>
        LET N == Len(frame.labels)
            B == args.eval_batch_size
            S == frame.sample_size
            k == frame.batches
            Over(j) == S.kind = "num" /\ j * B * S.den > S.num
        IN /\ k <= CeilDiv(N, B)
           /\ \A j \in 1..(k - 1) : ~Over(j) /\ j * B < N
           /\ frame.pc = "loop" /\ k >= 1 => ~Over(k) /\ k * B < N
           /\ frame.pc \in {"post", "returned"} =>
                  k >= 1 /\ (Over(k) \/ k * B >= N)
           /\ frame.pc = "returned" =>
                  Len(frame.ret.pred) =
                      IF S.kind = "inf" THEN N ELSE Min(N, FirstOver(S, B))

C5_Witness ==
    /\ frame.func = "get_bulk_preds"
    /\ frame.pc = "returned"
    /\ frame.sample_size = PyInt(2)
    /\ args.eval_batch_size = 1
    /\ Len(frame.labels) = 4
    /\ frame.batches = 3
    /\ Len(frame.ret.pred) = 3

\* C6: get_preds takes its limit from get_sample_arg alone: with a the
\* split's <split>_samples when its dynamic flag is set and infinity
\* otherwise, the limit is len(loader.dataset)*a for a <= 1 and a for
\* a > 1; the loop stops after the first batch k with
\* k*args.batch_size > limit or at the end of the loader (the only stop
\* when the flag is off), and sample_size changes neither the batches
\* processed nor the tensors returned.
C6_PredsLimit ==
    frame.func = "get_preds" /\ frame.split \in ValidSplits =>
        LET N == Len(frame.labels)
            dyn == IF frame.split = "train" THEN args.dynamic_train
                   ELSE IF frame.split = "test" THEN args.dynamic_test
                   ELSE args.dynamic_val
            a == IF frame.split = "train" THEN args.train_samples
                 ELSE IF frame.split = "test" THEN args.test_samples
                 ELSE args.val_samples
            \* j * args.batch_size > limit
            Over(j) == /\ dyn
                       /\ a.kind = "num"
                       /\ IF a.num <= a.den
                          THEN j * args.batch_size * a.den > N * a.num
                          ELSE j * args.batch_size * a.den > a.num
            End(j) == j * frame.bs >= N
            k == frame.batches
            scored == Min(N, k * frame.bs)
        IN /\ frame.pc # "raised" \/ frame.error = "NameError"
           /\ \A j \in 1..(k - 1) : ~Over(j) /\ ~End(j)
           /\ frame.pc = "loop" /\ k >= 1 => ~Over(k) /\ ~End(k)
           /\ frame.pc \in {"post", "returned", "raised"} =>
                  k >= 1 /\ (Over(k) \/ End(k))
           /\ ~dyn /\ frame.pc \in {"post", "returned", "raised"} => End(k)
           /\ frame.pc = "returned" =>
                  /\ frame.ret.pred = [i \in 1..scored |-> Logit(i)]
                  /\ frame.ret.true = [i \in 1..scored |-> frame.labels[i]]

C6_Witness ==
    /\ frame.func = "get_preds"
    /\ frame.pc = "returned"
    /\ frame.split = "valid"
    /\ args.dynamic_val /\ args.val_samples = Num(1, 2)
    /\ ~args.dynamic_train /\ args.train_samples = PyInt(0)
    /\ frame.sample_size = PyInt(1)
    /\ args.batch_size = 1 /\ frame.bs = 1
    /\ Len(frame.labels) = 4
    /\ Len(frame.ret.pred) = 3

\* The entries of pred whose label is v, in the order of pred.
IsMaskOf(part, pred, true, v) ==
    LET idx == {i \in 1..Len(pred) : true[i] = v}
    IN /\ Len(part) = Cardinality(idx)
       /\ {part[j] : j \in 1..Len(part)} = {pred[i] : i \in idx}
       /\ \A j \in 1..(Len(part) - 1) : part[j] < part[j + 1]

\* C7: what get_bulk_preds and get_gnn_preds have scored is at every moment
\* a prefix of the dataset in its stored order; the returned pred and labels
\* have the same length and position i of both is link i; and when every
\* label is 0 or 1, pos_pred and neg_pred partition pred into the scores of
\* the label-1 and of the label-0 links, each in dataset order.
C7_PrefixPartition ==
    frame.func \in {"get_bulk_preds", "get_gnn_preds"} =>
        LET N == Len(frame.labels)
            seen == Cat(frame.y_pred)
            r == frame.ret
        IN /\ Len(seen) <= N
           /\ \A i \in 1..Len(seen) : seen[i] = Logit(i)
           /\ frame.pc = "returned" =>
                /\ r.pred = seen
                /\ Len(r.pred) >= 1
                /\ Len(r.true) = Len(r.pred)
                /\ \A i \in 1..Len(r.pred) : r.true[i] = frame.labels[i]
                /\ (\A i \in 1..N : frame.labels[i] \in {0, 1}) =>
                     /\ Len(r.pos_pred) + Len(r.neg_pred) = Len(r.pred)
                     /\ IsMaskOf(r.pos_pred, r.pred, r.true, 1)
                     /\ IsMaskOf(r.neg_pred, r.pred, r.true, 0)

C7_Witness ==
    /\ frame.func = "get_bulk_preds"
    /\ frame.pc = "returned"
    /\ frame.labels = <<0, 1, 1, 0>>
    /\ frame.ret.pred = <<Logit(1), Logit(2), Logit(3)>>
    /\ frame.ret.true = <<0, 1, 1>>
    /\ frame.ret.pos_pred = <<Logit(2), Logit(3)>>
    /\ frame.ret.neg_pred = <<Logit(1)>>

====
